---- MODULE Spec2Model ----
(***************************************************************************)
(* A model of the ANTS port (src/src/golang/ants.go): one Port on top of a *)
(* byte source, its three goroutines (readFromSourceLoop, readMessagesLoop,*)
(* writeDataMessagesLoop), the user operations Read, Write and Close, the  *)
(* DLE escape codec and the CRC-16 validator.  The source is either the    *)
(* in-memory loopback of src/src/golang/loopback/loopback.go, or a link to *)
(* a remote peer that sends frames in the wire format of src/protocol.md.  *)
(* Only the default configuration (CRC-16 for data messages) is modelled.  *)
(***************************************************************************)
EXTENDS Integers, Sequences, FiniteSets, TLC

(***************************************************************************)
(* Bounds of the model.                                                    *)
(***************************************************************************)
MaxWrites == 2

MaxPayloadLen == 1

MaxPeerFrames == 2

MaxCodecLen == 4

MaxQueuedWrites == 7

\* The loopback on its own: the bytes written in all, and the longest slice
\* given to one Write or Read.
MaxPipeBytes == 4

MaxPipeSlice == 2

\* The control messages a peer sends to a port whose user writes nothing.
MaxControlFrames == 4

\* The longest data chunk of the port that writes one data message to itself.
MaxFrameLen == 3

\* How many times the peer transmits the same data message.
MaxDuplicates == 2

\* How many data messages the peer of a reassembling port transmits.
MaxAliasFrames == 3

(***************************************************************************)
(* Program constants (ants.go, lines 35-56; crc.go, line 30).              *)
(***************************************************************************)
readChanSize == 25

readBufferSize == 512

maxMessageSize == 2048

readControlMessageChanSize == 3

readDataChunkChanSize == 5

writeDataChunkChanSize == 5

dle == 16

umsn == 0

stx == 2

etx == 3

ack == 6

nak == 21

crc16Polynomial == 33800

dataMessageCRCLength == 2

\* The capacity above which p.readBinaryDataBuffer is released (ants.go, line 581).
releaseCapacity == 10240

(***************************************************************************)
(* The byte values the user and the peer draw payload bytes from: a plain  *)
(* byte that is also the UMSN value, the escape byte, and the end          *)
(* character.                                                              *)
(***************************************************************************)
PayloadBytes == {0, dle, etx}

RECURSIVE SeqsUpTo(_, _)
SeqsUpTo(S, n) ==
    IF n = 0 THEN {<<>>}
    ELSE LET shorter == SeqsUpTo(S, n - 1)
         IN  shorter \cup {Append(s, b) : s \in {t \in shorter : Len(t) = n - 1}, b \in S}

Payloads == SeqsUpTo(PayloadBytes, MaxPayloadLen)

(***************************************************************************)
(* escapeDLE and unescapeDLE (ants.go, lines 597-627).                     *)
(***************************************************************************)
(* A faulty variant of escapeDLE, which does not double a DLE. *)
escapeDLEKeepsSingle(data) == data

RECURSIVE escapeDLE(_)
escapeDLE(data) ==
    IF data = <<>> THEN <<>>
    ELSE (IF Head(data) = dle THEN <<dle, dle>> ELSE <<Head(data)>>)
         \o escapeDLE(Tail(data))

RECURSIVE unescapeFrom(_, _)
unescapeFrom(data, isEscaped) ==
    IF data = <<>> THEN <<>>
    ELSE IF ~isEscaped /\ Head(data) = dle
         THEN unescapeFrom(Tail(data), TRUE)
         ELSE <<Head(data)>> \o unescapeFrom(Tail(data), FALSE)

unescapeDLE(data) == unescapeFrom(data, FALSE)

(***************************************************************************)
(* The CRC-16 of crc16Validator (crc.go): crc16.MakeTable(0x8408) is the   *)
(* reflected table, crc16.Checksum inverts the register before and after   *)
(* the bytes, and the result is stored little-endian.  Every operator      *)
(* binds its arguments to their values (x \in {a}) before it uses them, so *)
(* that an argument is evaluated once.                                     *)
(***************************************************************************)
bit(x, y, i) == (((x \div (2 ^ i)) + (y \div (2 ^ i))) % 2) * (2 ^ i)

xor(a, b) ==
    CHOOSE r \in
        {bit(x, y, 0) + bit(x, y, 1) + bit(x, y, 2) + bit(x, y, 3) + bit(x, y, 4)
         + bit(x, y, 5) + bit(x, y, 6) + bit(x, y, 7) + bit(x, y, 8) + bit(x, y, 9)
         + bit(x, y, 10) + bit(x, y, 11) + bit(x, y, 12) + bit(x, y, 13)
         + bit(x, y, 14) + bit(x, y, 15) : x \in {a}, y \in {b}} : TRUE

RECURSIVE crcShift(_, _)
crcShift(crc, n) ==
    CHOOSE r \in
        {IF k = 0 THEN c
         ELSE crcShift(IF (c % 2) = 1 THEN xor(c \div 2, crc16Polynomial)
                       ELSE c \div 2, k - 1) : c \in {crc}, k \in {n}} : TRUE

crc16Table(i) == crcShift(i, 8)

RECURSIVE crcUpdate(_, _)
crcUpdate(crc, p) ==
    CHOOSE r \in
        {IF q = <<>> THEN c
         ELSE crcUpdate(xor(crc16Table(xor(c % 256, Head(q))), c \div 256), Tail(q)) :
            c \in {crc}, q \in {p}} : TRUE

crc16Checksum(data) == xor(crcUpdate(xor(0, 65535), data), 65535)

Checksum(data) ==
    LET crc == crc16Checksum(data) IN <<(crc % 256), (crc \div 256)>>

Validate(data, rawCRC) ==
    crc16Checksum(data) = rawCRC[1] + (256 * rawCRC[2])


(***************************************************************************)
(* A faulty variant of the message construction, which does not escape the *)
(* data.  The framing property C32 must tell it from the construction of   *)
(* the source.                                                             *)
(***************************************************************************)
buildDataMessagePlain(data) ==
    LET escaped == <<dle, stx>> \o data
        crc     == escapeDLE(Checksum(escaped))
    IN  escaped \o crc \o <<dle, etx>>

(***************************************************************************)
(* The frame writeDataMessagesLoop builds from a user data chunk (ants.go, *)
(* lines 239-255): the escaped chunk behind DLE STX, the checksum of those *)
(* bytes, escaped, and DLE ETX.                                            *)
(***************************************************************************)
buildDataMessage(data) ==
    LET escaped == <<dle, stx>> \o escapeDLE(data)
        crc     == escapeDLE(Checksum(escaped))
    IN  escaped \o crc \o <<dle, etx>>

(***************************************************************************)
(* writeControlMessage (ants.go, lines 287-289): the bytes it writes to    *)
(* the source.  Its body is a TODO, it writes nothing.                     *)
(***************************************************************************)
writeControlMessage(ctrlType, msn) == <<>>

(***************************************************************************)
(* handleReceivedControlMessageBody (ants.go, lines 490-523), up to the    *)
(* push to the channel: whether the body is accepted, and the control      *)
(* message it yields.                                                      *)
(***************************************************************************)
handleReceivedControlMessageBody(typeCharacter, body) ==
    IF Len(body) # 3
    THEN [ok |-> FALSE, cm |-> [TypeCharacter |-> typeCharacter, MSN |-> umsn]]
    ELSE LET pos         == Len(body) - 2
             crcChecksum == SubSeq(body, pos + 1, Len(body))
             rest        == SubSeq(body, 1, pos)
         IN  IF ~Validate(rest, crcChecksum)
             THEN [ok |-> FALSE, cm |-> [TypeCharacter |-> typeCharacter, MSN |-> umsn]]
             ELSE [ok |-> TRUE, cm |-> [TypeCharacter |-> typeCharacter, MSN |-> rest[1]]]

(***************************************************************************)
(* A faulty variant of the data handler, which takes the binary data from  *)
(* the append data flag on (body[1:] in place of body[2:]).  The           *)
(* reassembly property C8 must tell it from the handler of the source.     *)
(***************************************************************************)
handleReceivedDataMessageBodyKeepsFlag(body) ==
    IF Len(body) < 2 + dataMessageCRCLength
    THEN [err |-> TRUE, pmsn |-> umsn, appendData |-> 0, binData |-> <<>>,
          reply |-> nak]
    ELSE LET pos         == Len(body) - dataMessageCRCLength
             crcChecksum == SubSeq(body, pos + 1, Len(body))
             rest        == SubSeq(body, 1, pos)
         IN  IF ~Validate(rest, crcChecksum)
             THEN [err |-> TRUE, pmsn |-> umsn, appendData |-> 0,
                   binData |-> <<>>, reply |-> nak]
             ELSE [err |-> FALSE, pmsn |-> rest[1], appendData |-> rest[2],
                   binData |-> SubSeq(rest, 2, Len(rest)), reply |-> ack]

(***************************************************************************)
(* A faulty variant of the data handler, which does not validate the       *)
(* checksum.  The property C30 must tell it from the handler of the        *)
(* source.                                                                 *)
(***************************************************************************)
handleReceivedDataMessageBodySkipsCRC(body) ==
    IF Len(body) < 2 + dataMessageCRCLength
    THEN [err |-> TRUE, pmsn |-> umsn, appendData |-> 0, binData |-> <<>>,
          reply |-> nak]
    ELSE LET pos  == Len(body) - dataMessageCRCLength
             rest == SubSeq(body, 1, pos)
         IN  [err |-> FALSE, pmsn |-> rest[1], appendData |-> rest[2],
              binData |-> SubSeq(rest, 3, Len(rest)), reply |-> ack]

(***************************************************************************)
(* handleReceivedDataMessageBody (ants.go, lines 525-591), its decisions:  *)
(* err (too short or bad checksum), the peer message sequence number, the  *)
(* append data flag, the binary data, and the control message of the       *)
(* deferred reply.                                                         *)
(***************************************************************************)
handleReceivedDataMessageBody(body) ==
    IF Len(body) < 2 + dataMessageCRCLength
    THEN [err |-> TRUE, pmsn |-> umsn, appendData |-> 0, binData |-> <<>>,
          reply |-> nak]
    ELSE LET pos         == Len(body) - dataMessageCRCLength
             crcChecksum == SubSeq(body, pos + 1, Len(body))
             rest        == SubSeq(body, 1, pos)
         IN  IF ~Validate(rest, crcChecksum)
             THEN [err |-> TRUE, pmsn |-> umsn, appendData |-> 0,
                   binData |-> <<>>, reply |-> nak]
             ELSE [err |-> FALSE, pmsn |-> rest[1], appendData |-> rest[2],
                   binData |-> SubSeq(rest, 3, Len(rest)), reply |-> ack]

(***************************************************************************)
(* The messages a remote peer sends (src/protocol.md, section 3): a start  *)
(* character behind DLE, the body and its CRC-16 with every DLE doubled,   *)
(* and DLE ETX.  The checksum is taken over the whole message including    *)
(* the start character (protocol.md, section 4), over the body alone, or   *)
(* it arrives with one bit of its first byte flipped in transit.           *)
(***************************************************************************)
CRCDomains == {"message", "body", "corrupt"}

PeerMSNs == {0, 1}

PeerPayloads == {<<0>>, <<dle>>}

crcField(start, body, crcOver) ==
    IF crcOver = "message" THEN Checksum(<<start>> \o body)
    ELSE IF crcOver = "body" THEN Checksum(body)
    ELSE LET crc == Checksum(body) IN <<xor(crc[1], 1), crc[2]>>

peerMessage(start, body, crcOver) ==
    <<dle, start>> \o escapeDLE(body \o crcField(start, body, crcOver)) \o <<dle, etx>>

PeerDataMessages ==
    {peerMessage(stx, <<msn, flag>> \o payload, c) :
        msn \in PeerMSNs, flag \in {0, 1}, payload \in PeerPayloads, c \in CRCDomains}

PeerControlMessages ==
    {peerMessage(kind, <<msn>>, c) :
        kind \in {ack, nak}, msn \in PeerMSNs, c \in CRCDomains}

(***************************************************************************)
(* The state.                                                              *)
(***************************************************************************)
VARIABLES
    transport,               \* "loopback", "link" or "faulty": what Port.source is
    srcBuffer,               \* the bytes the source holds for Read (loopback.buffer)
    srcClosed,               \* the source was closed (loopback.isClosed)
    isClosed,                \* Port.isClosed; closeChan is closed exactly when it is set
    readChan,                \* Port.readChan
    readBinaryDataBuffer,    \* Port.readBinaryDataBuffer
    readControlMessageChan,  \* Port.readControlMessageChan
    readDataChunkChan,       \* Port.readDataChunkChan
    writeDataChunkChan,      \* Port.writeDataChunkChan
    wpc,                     \* writeDataMessagesLoop: "select", "write", "wait", "done"
    wdata,                   \* writeDataMessagesLoop: the message of the resend loop
    wchunk,                  \* writeDataMessagesLoop: the data chunk it was built from
    lastWrite,               \* history: what the last call of writeToSource met
    readBinaryDataBufferCap, \* cap(p.readBinaryDataBuffer): the size of its array
    dataSlices,              \* the slices made at line 572 of ants.go, see NoSlices;
                             \* readDataChunkChan and delivered hold what each held then
    rpc,                     \* readFromSourceLoop: "check", "read", "push", "done"
    rbuf,                    \* readFromSourceLoop: buf[:n], the bytes still to push
    ppc,                     \* readMessagesLoop: "select", "pushControl", "pushData", "done"
    buf,                     \* readMessagesLoop: buf
    controlCharacter,        \* readMessagesLoop: controlCharacter
    isControlMessage,        \* readMessagesLoop: isControlMessage
    startCharacterFound,     \* readMessagesLoop: startCharacterFound
    byteIsEscaped,           \* readMessagesLoop: byteIsEscaped
    timerRunning,            \* readMessagesLoop: timeoutTimer is armed
    timerTick,               \* readMessagesLoop: a tick waits in timeoutTimer.C
    pending,                 \* the value a blocked channel send of the parser holds
    peerSent,                \* history: number of messages the peer has sent
    submitted,               \* history: the data chunks Write accepted
    delivered,               \* history: the data chunks Read returned
    sent,                    \* history: the data messages written to the source,
                             \*   each with its data chunk and the chunk's number
    handledCount,            \* history: number of bodies handed to the data handler
    lastHandled,             \* history: the last such body and the writes of its reply
    frags,                   \* history: valid data messages since the last publication
    lastPub,                 \* history: the last publication and the messages it came from
    writeCall,               \* Port.Write: the data of a call blocked in its channel send
    lastRead,                \* history: what the last call of Port.Read returned
    closeChanCloses,         \* history: how often close(p.closeChan) was executed
    sourceCloses,            \* history: how often p.source.Close() was called
    closedBy,                \* history: the caller of the Close that closed the port
    lastFault,               \* history: the last error or panic of the source
    ackedAt,                 \* history: the writes to the source answered by an ACK
    codecInput,              \* the codec on its own: the bytes given to escapeDLE
    codecData,               \* the codec on its own: the bytes as they are now
    codecStage,              \* the codec on its own: "input", "escaped", "unescaped"
    pipeWritten,             \* the loopback on its own: all bytes its Writes accepted
    pipeRead,                \* the loopback on its own: all bytes its Reads returned
    pipeLast,                \* the loopback on its own: the last call and its results
    peerLast                 \* history: the bytes of the peer's last transmission

srcVars == <<transport, srcBuffer, srcClosed>>

chanVars == <<readChan, readControlMessageChan, readDataChunkChan, writeDataChunkChan>>

writerVars == <<wpc, wdata, wchunk, lastWrite>>

readerVars == <<rpc, rbuf>>

parserVars == <<ppc, buf, controlCharacter, isControlMessage, startCharacterFound,
                byteIsEscaped, timerRunning, timerTick, pending, readBinaryDataBuffer>>

historyVars == <<peerSent, submitted, delivered, sent, handledCount, lastHandled, frags, lastPub>>

callVars == <<writeCall, lastRead>>

closeVars == <<closeChanCloses, sourceCloses, closedBy, lastFault>>

codecVars == <<codecInput, codecData, codecStage>>

pipeVars == <<pipeWritten, pipeRead, pipeLast>>

\* What the port on its own source leaves alone, but for the peer's history.
arrayVars == <<readBinaryDataBufferCap, dataSlices>>

sideVars == <<codecVars, pipeVars, peerLast, arrayVars>>

extVars == <<callVars, closeVars, ackedAt, sideVars>>

vars == <<srcVars, isClosed, chanVars, writerVars, readerVars, parserVars, historyVars,
          extVars>>

NoClose == [task |-> "none", cause |-> "none"]

NoFault == [op |-> "none", outcome |-> "none"]

NoWrite == [outcome |-> "none", terminator |-> "none", terminators |-> 0]

(***************************************************************************)
(* The slices that handleReceivedDataMessageBody has made with             *)
(* append(p.readBinaryDataBuffer, binData...) (ants.go, line 572) and sent *)
(* to readDataChunkChan, oldest first.  Of each: the bytes it held when it *)
(* was made (made), the bytes it holds now (now), and whether its array is *)
(* the array of p.readBinaryDataBuffer (shared).  NewPort has made none.   *)
(***************************************************************************)
NoSlices == <<>>

NoPub == [data |-> <<>>, frags |-> <<>>]

(***************************************************************************)
(* NewPort (ants.go, lines 107-146) on a fresh source.                     *)
(***************************************************************************)
NewPort(source) ==
    /\ transport = source
    /\ srcBuffer = <<>>
    /\ srcClosed = FALSE
    /\ isClosed = FALSE
    /\ readChan = <<>>
    /\ readBinaryDataBuffer = <<>>
    /\ readControlMessageChan = <<>>
    /\ readDataChunkChan = <<>>
    /\ writeDataChunkChan = <<>>
    /\ wpc = "select"
    /\ wdata = <<>>
    /\ wchunk = <<>>
    /\ lastWrite = NoWrite
    /\ rpc = "check"
    /\ rbuf = <<>>
    /\ ppc = "select"
    /\ buf = <<>>
    /\ controlCharacter = 0
    /\ isControlMessage = FALSE
    /\ startCharacterFound = FALSE
    /\ byteIsEscaped = FALSE
    /\ timerRunning = FALSE
    /\ timerTick = FALSE
    /\ pending = <<>>
    /\ peerSent = 0
    /\ submitted = <<>>
    /\ delivered = <<>>
    /\ sent = <<>>
    /\ handledCount = 0
    /\ lastHandled = [body |-> <<>>, written |-> <<>>]
    /\ frags = <<>>
    /\ lastPub = NoPub
    /\ writeCall = <<>>
    /\ lastRead = "none"
    /\ closeChanCloses = 0
    /\ sourceCloses = 0
    /\ closedBy = NoClose
    /\ lastFault = NoFault
    /\ ackedAt = {}
    /\ peerLast = <<>>
    /\ readBinaryDataBufferCap = 0
    /\ dataSlices = NoSlices

(***************************************************************************)
(* What the source holds after a Write of bytes: the loopback appends them *)
(* to its buffer (loopback.go, lines 76-90), a link carries them away to   *)
(* the peer.                                                               *)
(***************************************************************************)
sourceAfterWrite(bytes) ==
    IF transport = "loopback" /\ ~srcClosed THEN srcBuffer \o bytes ELSE srcBuffer

(***************************************************************************)
(* What a Write and a Read of the source may return.  A closed source      *)
(* returns an error (loopback.go, lines 48-50 and 81-83).  The loopback    *)
(* and the link return no other error; a faulty source may return an error *)
(* or panic at any call, its Write may take only a part of the bytes       *)
(* ("short"), and its Read may report the end of the stream.               *)
(* A Read returns "bytes" when it has bytes to return and "zero" when not. *)
(***************************************************************************)
sourceWriteOutcomes ==
    IF srcClosed THEN {"error"}
    ELSE IF transport = "faulty" THEN {"ok", "short", "error", "panic"}
    ELSE {"ok"}

sourceReadOutcomes ==
    IF srcClosed THEN {"error"}
    ELSE {IF srcBuffer = <<>> THEN "zero" ELSE "bytes"}
         \cup (IF transport = "faulty" THEN {"eof", "error", "panic"} ELSE {})

(***************************************************************************)
(* A faulty variant of Close, which does not test the flag.                *)
(***************************************************************************)
closePortAgain(task, cause) ==
    /\ isClosed' = TRUE
    /\ closeChanCloses' = closeChanCloses + 1
    /\ sourceCloses' = sourceCloses + 1
    /\ srcClosed' = TRUE
    /\ closedBy' = [task |-> task, cause |-> cause]

(***************************************************************************)
(* The body of Port.Close (ants.go, lines 154-177) under closeMutex: the   *)
(* first call sets the flag, closes closeChan and closes the source; a     *)
(* later call returns at once.  task and cause name the caller.            *)
(***************************************************************************)
closePort(task, cause) ==
    IF isClosed
    THEN UNCHANGED <<isClosed, closeChanCloses, sourceCloses, srcClosed, closedBy>>
    ELSE /\ isClosed' = TRUE
         /\ closeChanCloses' = closeChanCloses + 1
         /\ sourceCloses' = sourceCloses + 1
         /\ srcClosed' = TRUE
         /\ closedBy' = [task |-> task, cause |-> cause]

(***************************************************************************)
(* Port.Close called by the user.                                          *)
(***************************************************************************)
Close ==
    /\ closePort("user", "Close")
    /\ UNCHANGED <<transport, srcBuffer, chanVars, writerVars, readerVars,
                   parserVars, historyVars, callVars, lastFault, ackedAt, sideVars>>

(***************************************************************************)
(* Port.Write (ants.go, lines 210-219): ErrClosed on a closed port,        *)
(* otherwise a send to writeDataChunkChan.  While the channel is full the  *)
(* call stays blocked in the send (writeCall), and goes on when there is   *)
(* room; nothing else ends it.                                             *)
(***************************************************************************)
Write(data) ==
    IF writeCall # <<>>
    THEN /\ data = writeCall[1]
         /\ Len(writeDataChunkChan) < writeDataChunkChanSize
         /\ writeDataChunkChan' = Append(writeDataChunkChan, data)
         /\ writeCall' = <<>>
         /\ UNCHANGED <<srcVars, isClosed, readChan, readControlMessageChan,
                        readDataChunkChan, writerVars, readerVars, parserVars,
                        historyVars, lastRead, closeVars, ackedAt, sideVars>>
    ELSE IF isClosed
    THEN UNCHANGED vars
    ELSE /\ submitted' = Append(submitted, data)
         /\ IF Len(writeDataChunkChan) < writeDataChunkChanSize
            THEN /\ writeDataChunkChan' = Append(writeDataChunkChan, data)
                 /\ UNCHANGED writeCall
            ELSE /\ writeCall' = <<data>>
                 /\ UNCHANGED writeDataChunkChan
         /\ UNCHANGED <<srcVars, isClosed, readChan, readControlMessageChan,
                        readDataChunkChan, writerVars, readerVars, parserVars,
                        peerSent, delivered, sent, handledCount, lastHandled, frags,
                        lastPub, lastRead, closeVars, ackedAt, sideVars>>

(***************************************************************************)
(* A faulty variant of Read, whose timeout takes a data chunk from the     *)
(* channel.                                                                *)
(***************************************************************************)
ReadTimeoutTakesData(timeout) ==
    /\ timeout > 0
    /\ lastRead' = "ErrTimeout"
    /\ readDataChunkChan' = IF readDataChunkChan = <<>> THEN <<>>
                            ELSE Tail(readDataChunkChan)
    /\ UNCHANGED <<srcVars, isClosed, readChan, readControlMessageChan,
                   writeDataChunkChan, writerVars, readerVars, parserVars,
                   historyVars, writeCall, closeVars, ackedAt, sideVars>>

(***************************************************************************)
(* Port.Read (ants.go, lines 183-206): a select over closeChan, the        *)
(* timeout (when one is given) and readDataChunkChan; only the last one    *)
(* changes the port.                                                       *)
(***************************************************************************)
Read(timeout) ==
    \E c \in {"closeChan", "timeoutChan", "readDataChunkChan"} :
        IF c = "readDataChunkChan"
        THEN /\ readDataChunkChan # <<>>
             /\ readDataChunkChan' = Tail(readDataChunkChan)
             /\ delivered' = Append(delivered, Head(readDataChunkChan))
             /\ lastRead' = "data"
             /\ UNCHANGED <<srcVars, isClosed, readChan, readControlMessageChan,
                            writeDataChunkChan, writerVars, readerVars, parserVars,
                            peerSent, submitted, sent, handledCount, lastHandled, frags,
                            lastPub, writeCall, closeVars, ackedAt, sideVars>>
        ELSE /\ IF c = "closeChan" THEN isClosed ELSE timeout > 0
             /\ lastRead' = IF c = "closeChan" THEN "ErrClosed" ELSE "ErrTimeout"
             /\ UNCHANGED <<srcVars, isClosed, chanVars, writerVars, readerVars,
                            parserVars, historyVars, writeCall, closeVars, ackedAt,
                            sideVars>>

(***************************************************************************)
(* A faulty variant of the resend loop, which leaves the loop on every     *)
(* control message.                                                        *)
(***************************************************************************)
resendLoopStepLeavesOnNak(cm, data) == [pc |-> "select", data |-> data]

(***************************************************************************)
(* A faulty variant of the resend loop, which escapes the message once     *)
(* more before it writes it again.                                         *)
(***************************************************************************)
resendLoopStepEscapesAgain(cm, data) ==
    IF cm.TypeCharacter = ack
    THEN [pc |-> "select", data |-> data]
    ELSE [pc |-> "write", data |-> escapeDLE(data)]

(***************************************************************************)
(* The end of one pass of the ResendLoop (ants.go, lines 270-281): on an   *)
(* ACK the loop is left, on every other control message the same data is   *)
(* written again.                                                          *)
(***************************************************************************)
resendLoopStep(cm, data) ==
    IF cm.TypeCharacter = ack
    THEN [pc |-> "select", data |-> data]
    ELSE [pc |-> "write", data |-> data]

(***************************************************************************)
(* A faulty variant of the test of the source's Read, which takes the end  *)
(* of the stream for an error.                                             *)
(***************************************************************************)
sourceReadIsFatalAtEOF(outcome) == outcome \in {"error", "panic", "eof"}

(***************************************************************************)
(* The results of p.source.Read on which readFromSourceLoop closes the     *)
(* port and returns: an error other than io.EOF (ants.go, lines 337-342)   *)
(* and a panic, which the deferred function recovers (lines 323-328).      *)
(***************************************************************************)
sourceReadIsFatal(outcome) == outcome \in {"error", "panic"}

(***************************************************************************)
(* The results of p.source.Write on which writeToSource returns an error   *)
(* (ants.go, lines 295-305): an error, and a panic that it recovers.       *)
(***************************************************************************)
sourceWriteIsFatal(outcome) == outcome \in {"error", "panic"}

(***************************************************************************)
(* A faulty variant of writeToSource, which returns an error when the      *)
(* source took only a part of the message.                                 *)
(***************************************************************************)
writeToSourceShortIsFatal(outcome, terminator) ==
    [err |-> outcome # "ok", terminators |-> 0,
     fault |-> IF outcome = "ok" THEN "none" ELSE outcome]

(***************************************************************************)
(* writeToSource (ants.go, lines 291-318) for a Write that ends as outcome *)
(* and, after a short Write, a Write of DLE ETX that ends as terminator:   *)
(* whether it returns an error, how many times it wrote DLE ETX, and the   *)
(* fault it reports.  The results of the Write of DLE ETX are dismissed    *)
(* (line 311); a panic in it is recovered by the deferred function (lines  *)
(* 294-298) as any panic is.                                               *)
(***************************************************************************)
writeToSource(outcome, terminator) ==
    IF sourceWriteIsFatal(outcome)
    THEN [err |-> TRUE, terminators |-> 0, fault |-> outcome]
    ELSE IF outcome = "short"
    THEN [err |-> terminator = "panic", terminators |-> 1,
          fault |-> IF terminator = "panic" THEN "panic" ELSE "none"]
    ELSE [err |-> FALSE, terminators |-> 0, fault |-> "none"]

(***************************************************************************)
(* writeDataMessagesLoop (ants.go, lines 232-285) with writeToSource       *)
(* (lines 292-318): the select over closeChan and writeDataChunkChan, the  *)
(* write of the message to the source, and the wait for a control message.*)
(***************************************************************************)
writeDataMessagesLoop ==
    IF wpc = "select"
    THEN \E c \in {"closeChan", "writeDataChunkChan"} :
            IF c = "closeChan"
            THEN /\ isClosed
                 /\ wpc' = "done"
                 /\ UNCHANGED <<srcVars, isClosed, chanVars, wdata, wchunk, lastWrite,
                                readerVars, parserVars, historyVars, extVars>>
            ELSE /\ writeDataChunkChan # <<>>
                 /\ wchunk' = Head(writeDataChunkChan)
                 /\ wdata' = buildDataMessage(Head(writeDataChunkChan))
                 /\ writeDataChunkChan' = Tail(writeDataChunkChan)
                 /\ wpc' = "write"
                 /\ UNCHANGED <<srcVars, isClosed, readChan, readControlMessageChan,
                                readDataChunkChan, lastWrite, readerVars, parserVars,
                                historyVars, extVars>>
    ELSE IF wpc = "write"
    THEN \E outcome \in sourceWriteOutcomes :
         \E terminator \in IF outcome = "short" THEN sourceWriteOutcomes ELSE {"none"} :
            /\ lastWrite' = [outcome |-> outcome, terminator |-> terminator,
                             terminators |-> writeToSource(outcome, terminator).terminators]
            /\ IF writeToSource(outcome, terminator).err
               THEN
                 /\ lastFault' = [op |-> "Write",
                                  outcome |-> writeToSource(outcome, terminator).fault]
                 /\ closePort("writeDataMessagesLoop",
                              writeToSource(outcome, terminator).fault)
                 /\ wpc' = "done"
                 /\ UNCHANGED <<transport, srcBuffer, chanVars, wdata, wchunk,
                                readerVars, parserVars, historyVars, callVars,
                                ackedAt, sideVars>>
               ELSE
                 /\ srcBuffer' = sourceAfterWrite(wdata)
                 /\ sent' = Append(sent, [chunk |-> wchunk,
                                        n |-> Len(submitted) - Len(writeCall)
                                                - Len(writeDataChunkChan),
                                        message |-> wdata])
                 /\ wpc' = "wait"
                 /\ UNCHANGED <<transport, srcClosed, isClosed, chanVars, wdata, wchunk,
                                readerVars, parserVars, peerSent, submitted, delivered,
                                handledCount, lastHandled, frags, lastPub, extVars>>
    ELSE /\ wpc = "wait"
         /\ readControlMessageChan # <<>>
         /\ readControlMessageChan' = Tail(readControlMessageChan)
         /\ wpc' = resendLoopStep(Head(readControlMessageChan), wdata).pc
         /\ wdata' = resendLoopStep(Head(readControlMessageChan), wdata).data
         /\ ackedAt' = IF Head(readControlMessageChan).TypeCharacter = ack
                       THEN ackedAt \cup {Len(sent)} ELSE ackedAt
         /\ UNCHANGED <<srcVars, isClosed, readChan, readDataChunkChan,
                        writeDataChunkChan, wchunk, lastWrite, readerVars, parserVars,
                        historyVars, callVars, closeVars, sideVars>>

(***************************************************************************)
(* readFromSourceLoop (ants.go, lines 320-355): the test of isClosed, the  *)
(* Read of the source (loopback.go, lines 43-74), and the push of each     *)
(* byte read to readChan.  A Read of no bytes is one step with the sleep   *)
(* and the test of isClosed that follow it.                                *)
(***************************************************************************)
readFromSourceLoop ==
    IF rpc = "check"
    THEN /\ rpc' = IF isClosed THEN "done" ELSE "read"
         /\ UNCHANGED <<srcVars, isClosed, chanVars, writerVars, rbuf, parserVars,
                        historyVars, extVars>>
    ELSE IF rpc = "read"
    THEN \E outcome \in sourceReadOutcomes :
            IF sourceReadIsFatal(outcome)
            THEN /\ lastFault' = [op |-> "Read", outcome |-> outcome]
                 /\ closePort("readFromSourceLoop", outcome)
                 /\ rpc' = "done"
                 /\ UNCHANGED <<transport, srcBuffer, chanVars, writerVars, rbuf,
                                parserVars, historyVars, callVars, ackedAt, sideVars>>
            ELSE IF outcome # "bytes"
            THEN /\ rpc' = IF isClosed THEN "done" ELSE "read"
                 /\ UNCHANGED <<srcVars, isClosed, chanVars, writerVars, rbuf,
                                parserVars, historyVars, extVars>>
            ELSE LET n == IF Len(srcBuffer) < readBufferSize THEN Len(srcBuffer)
                          ELSE readBufferSize
                 IN  /\ rbuf' = SubSeq(srcBuffer, 1, n)
                     /\ srcBuffer' = SubSeq(srcBuffer, n + 1, Len(srcBuffer))
                     /\ rpc' = "push"
                     /\ UNCHANGED <<transport, srcClosed, isClosed, chanVars,
                                    writerVars, parserVars, historyVars, extVars>>
    ELSE /\ rpc = "push"
         /\ Len(readChan) < readChanSize
         /\ readChan' = Append(readChan, Head(rbuf))
         /\ rbuf' = Tail(rbuf)
         /\ rpc' = IF Tail(rbuf) = <<>> THEN "check" ELSE "push"
         /\ UNCHANGED <<srcVars, isClosed, readControlMessageChan, readDataChunkChan,
                        writeDataChunkChan, writerVars, parserVars, historyVars,
                        extVars>>

(***************************************************************************)
(* The reply of the data handler (ants.go, lines 531-538): the deferred    *)
(* call of writeControlMessage, and what it writes to the source.          *)
(***************************************************************************)
replyToDataMessage(body, ctrlType, msn) ==
    LET written == writeControlMessage(ctrlType, msn)
    IN  /\ srcBuffer' = IF written = <<>> THEN srcBuffer ELSE sourceAfterWrite(written)
        /\ handledCount' = handledCount + 1
        /\ lastHandled' = [body |-> body,
                           written |-> IF written = <<>> THEN <<>> ELSE <<written>>]

(***************************************************************************)
(* The time.Timer of readMessagesLoop (ants.go, lines 366-368): an armed   *)
(* timer expires and leaves a tick in its channel.                         *)
(***************************************************************************)
timeoutTimer ==
    /\ timerRunning
    /\ timerRunning' = FALSE
    /\ timerTick' = TRUE
    /\ UNCHANGED <<srcVars, isClosed, chanVars, writerVars, readerVars, ppc, buf,
                   controlCharacter, isControlMessage, startCharacterFound,
                   byteIsEscaped, pending, readBinaryDataBuffer, historyVars, extVars>>

(***************************************************************************)
(* append(s, elems...) of Go, for a slice s of length len and capacity     *)
(* capacity and n elements.  It writes the elements into the array of s    *)
(* when they fit (appendFits); when they do not it allocates an array that *)
(* is large enough.  How large is left to the implementation: the array    *)
(* may be as long as the result, and growslice of the gc runtime doubles a *)
(* small capacity and rounds up to a size class, a multiple of 8 bytes for *)
(* the small slices of bytes.                                              *)
(***************************************************************************)
appendFits(len, capacity, n) == len + n <= capacity

appendCapacities(len, capacity, n) ==
    LET needed  == len + n
        doubled == IF needed > 2 * capacity THEN needed ELSE 2 * capacity
    IN  {needed, 8 * ((doubled + 7) \div 8)}

(***************************************************************************)
(* What the slices that share the array of p.readBinaryDataBuffer hold     *)
(* after append has written binData into that array behind its first len   *)
(* bytes (ants.go, lines 572 and 587): a slice is a view of the array, and *)
(* the bytes written are the bytes it shows from then on.                  *)
(***************************************************************************)
writeThrough(slices, len, binData) ==
    [k \in DOMAIN slices |->
        IF slices[k].shared
        THEN [slices[k] EXCEPT !.now =
                [i \in DOMAIN slices[k].now |->
                    IF i > len /\ i <= len + Len(binData)
                    THEN binData[i - len] ELSE slices[k].now[i]]]
        ELSE slices[k]]

(***************************************************************************)
(* The slices after p.readBinaryDataBuffer has got an array of its own:    *)
(* none of them shares it.                                                 *)
(***************************************************************************)
unshared(slices) == [k \in DOMAIN slices |-> [slices[k] EXCEPT !.shared = FALSE]]

(***************************************************************************)
(* One byte of readMessagesLoop (ants.go, lines 394-485).                  *)
(***************************************************************************)
readByte(b) ==
    IF ~byteIsEscaped /\ b = dle
    THEN /\ byteIsEscaped' = TRUE
         /\ UNCHANGED <<srcVars, isClosed, readControlMessageChan, readDataChunkChan,
                        writeDataChunkChan, writerVars, readerVars, ppc, buf,
                        controlCharacter, isControlMessage, startCharacterFound,
                        timerRunning, timerTick, pending, readBinaryDataBuffer,
                        historyVars, extVars>>
    ELSE IF byteIsEscaped /\ ~startCharacterFound
    THEN /\ byteIsEscaped' = FALSE
         /\ IF b \in {stx, ack, nak}
            THEN /\ isControlMessage' = (b # stx)
                 /\ controlCharacter' = IF b = stx THEN controlCharacter ELSE b
                 /\ startCharacterFound' = TRUE
                 /\ timerRunning' = TRUE
            ELSE UNCHANGED <<isControlMessage, controlCharacter, startCharacterFound,
                             timerRunning>>
         /\ UNCHANGED <<srcVars, isClosed, readControlMessageChan, readDataChunkChan,
                        writeDataChunkChan, writerVars, readerVars, ppc, buf,
                        timerTick, pending, readBinaryDataBuffer, historyVars, extVars>>
    ELSE IF byteIsEscaped /\ b = etx
    THEN LET body == unescapeDLE(buf)
             c    == handleReceivedControlMessageBody(controlCharacter, body)
             d    == handleReceivedDataMessageBody(body)
         IN  /\ timerRunning' = FALSE
             /\ IF isControlMessage
                THEN /\ IF c.ok
                        THEN /\ ppc' = "pushControl"
                             /\ pending' = c.cm
                             /\ buf' = body
                             /\ UNCHANGED byteIsEscaped
                        ELSE /\ buf' = <<>>
                             /\ byteIsEscaped' = FALSE
                             /\ UNCHANGED <<ppc, pending>>
                     /\ UNCHANGED <<srcVars, readBinaryDataBuffer, historyVars, extVars>>
                ELSE IF ~d.err /\ d.appendData = 0
                THEN /\ ppc' = "pushData"
                     /\ pending' = [data |-> readBinaryDataBuffer \o d.binData,
                                    pmsn |-> d.pmsn, body |-> body]
                     /\ dataSlices' =
                            IF appendFits(Len(readBinaryDataBuffer),
                                          readBinaryDataBufferCap, Len(d.binData))
                            THEN Append(writeThrough(dataSlices,
                                                     Len(readBinaryDataBuffer), d.binData),
                                        [made |-> readBinaryDataBuffer \o d.binData,
                                         now |-> readBinaryDataBuffer \o d.binData,
                                         shared |-> readBinaryDataBufferCap > 0])
                            ELSE Append(dataSlices,
                                        [made |-> readBinaryDataBuffer \o d.binData,
                                         now |-> readBinaryDataBuffer \o d.binData,
                                         shared |-> FALSE])
                     /\ buf' = body
                     /\ UNCHANGED <<srcVars, byteIsEscaped, readBinaryDataBuffer,
                                    historyVars, callVars, closeVars, ackedAt, codecVars,
                                    pipeVars, peerLast, readBinaryDataBufferCap>>
                ELSE /\ readBinaryDataBuffer' =
                            IF d.err THEN readBinaryDataBuffer
                            ELSE readBinaryDataBuffer \o d.binData
                     /\ IF d.err
                        THEN UNCHANGED arrayVars
                        ELSE IF appendFits(Len(readBinaryDataBuffer),
                                           readBinaryDataBufferCap, Len(d.binData))
                        THEN /\ dataSlices' = writeThrough(dataSlices,
                                                  Len(readBinaryDataBuffer), d.binData)
                             /\ UNCHANGED readBinaryDataBufferCap
                        ELSE /\ dataSlices' = unshared(dataSlices)
                             /\ readBinaryDataBufferCap' \in
                                    appendCapacities(Len(readBinaryDataBuffer),
                                                     readBinaryDataBufferCap,
                                                     Len(d.binData))
                     /\ replyToDataMessage(body, d.reply, d.pmsn)
                     /\ frags' = IF d.err THEN frags ELSE Append(frags, body)
                     /\ buf' = <<>>
                     /\ byteIsEscaped' = FALSE
                     /\ UNCHANGED <<transport, srcClosed, ppc, pending, peerSent,
                                    submitted, delivered, sent, lastPub, callVars,
                                    closeVars, ackedAt, codecVars, pipeVars, peerLast>>
             /\ UNCHANGED <<isClosed, readControlMessageChan, readDataChunkChan,
                            writeDataChunkChan, writerVars, readerVars,
                            controlCharacter, isControlMessage, startCharacterFound,
                            timerTick>>
    ELSE /\ buf' = IF Len(buf) + 1 > maxMessageSize THEN <<>> ELSE Append(buf, b)
         /\ byteIsEscaped' = FALSE
         /\ UNCHANGED <<srcVars, isClosed, readControlMessageChan, readDataChunkChan,
                        writeDataChunkChan, writerVars, readerVars, ppc,
                        controlCharacter, isControlMessage, startCharacterFound,
                        timerRunning, timerTick, pending, readBinaryDataBuffer,
                        historyVars, extVars>>

(***************************************************************************)
(* readMessagesLoop (ants.go, lines 357-488): the select over closeChan,   *)
(* the timer and readChan, and the two channel sends of the handlers it    *)
(* calls, which block while their channel is full (lines 520 and 575).     *)
(***************************************************************************)
readMessagesLoop ==
    IF ppc = "select"
    THEN \E c \in {"closeChan", "timeoutTimer", "readChan"} :
            IF c = "closeChan"
            THEN /\ isClosed
                 /\ ppc' = "done"
                 /\ timerRunning' = FALSE
                 /\ UNCHANGED <<srcVars, isClosed, chanVars, writerVars, readerVars,
                                buf, controlCharacter, isControlMessage,
                                startCharacterFound, byteIsEscaped, timerTick, pending,
                                readBinaryDataBuffer, historyVars, extVars>>
            ELSE IF c = "timeoutTimer"
            THEN /\ timerTick
                 /\ timerTick' = FALSE
                 /\ isControlMessage' = FALSE
                 /\ startCharacterFound' = FALSE
                 /\ byteIsEscaped' = FALSE
                 /\ controlCharacter' = 0
                 /\ buf' = <<>>
                 /\ UNCHANGED <<srcVars, isClosed, chanVars, writerVars, readerVars,
                                ppc, timerRunning, pending, readBinaryDataBuffer,
                                historyVars, extVars>>
            ELSE /\ readChan # <<>>
                 /\ readChan' = Tail(readChan)
                 /\ readByte(Head(readChan))
    ELSE IF ppc = "pushControl"
    THEN /\ Len(readControlMessageChan) < readControlMessageChanSize
         /\ readControlMessageChan' = Append(readControlMessageChan, pending)
         /\ buf' = <<>>
         /\ byteIsEscaped' = FALSE
         /\ ppc' = "select"
         /\ UNCHANGED <<srcVars, isClosed, readChan, readDataChunkChan,
                        writeDataChunkChan, writerVars, readerVars, controlCharacter,
                        isControlMessage, startCharacterFound, timerRunning, timerTick,
                        pending, readBinaryDataBuffer, historyVars, extVars>>
    ELSE /\ ppc = "pushData"
         /\ Len(readDataChunkChan) < readDataChunkChanSize
         /\ readDataChunkChan' = Append(readDataChunkChan, pending.data)
         /\ readBinaryDataBuffer' = <<>>
         /\ IF readBinaryDataBufferCap > releaseCapacity
            THEN /\ readBinaryDataBufferCap' = 0
                 /\ dataSlices' = unshared(dataSlices)
            ELSE UNCHANGED arrayVars
         /\ replyToDataMessage(pending.body, ack, pending.pmsn)
         /\ lastPub' = [data |-> pending.data, frags |-> Append(frags, pending.body)]
         /\ frags' = <<>>
         /\ buf' = <<>>
         /\ byteIsEscaped' = FALSE
         /\ ppc' = "select"
         /\ UNCHANGED <<transport, srcClosed, isClosed, readChan,
                        readControlMessageChan, writeDataChunkChan, writerVars,
                        readerVars, controlCharacter, isControlMessage,
                        startCharacterFound, timerRunning, timerTick, pending,
                        peerSent, submitted, delivered, sent, callVars, closeVars,
                        ackedAt, codecVars, pipeVars, peerLast>>

(***************************************************************************)
(* The remote peer of a link sends one message: the bytes arrive at the    *)
(* source (the source of Port, ants.go, line 86, read at line 336).  The   *)
(* peer sends its next message when the port has taken the bytes of the    *)
(* last one from the source and from readChan.                             *)
(***************************************************************************)
peerSend(message) ==
    /\ transport # "loopback"
    /\ ~srcClosed
    /\ srcBuffer = <<>> /\ rbuf = <<>> /\ readChan = <<>>
    /\ peerSent < MaxPeerFrames
    /\ peerSent' = peerSent + 1
    /\ srcBuffer' = srcBuffer \o message
    /\ UNCHANGED <<transport, srcClosed, isClosed, chanVars, writerVars, readerVars,
                   parserVars, submitted, delivered, sent, handledCount, lastHandled,
                   frags, lastPub, extVars>>

peerSendData == \E message \in PeerDataMessages : peerSend(message)

peerSendControl == \E message \in PeerControlMessages : peerSend(message)

userWrite ==
    \E data \in Payloads :
        /\ writeCall # <<>> \/ Len(submitted) < MaxWrites
        /\ Write(data)

userRead == Read(0)

receiveTasks == readFromSourceLoop \/ readMessagesLoop \/ timeoutTimer

tasks == writeDataMessagesLoop \/ receiveTasks

(***************************************************************************)
(* The goroutines run whenever they can; a user that keeps calling Read    *)
(* takes every data chunk that is ready.  The user need not write or       *)
(* close, and the peer need not send.                                      *)
(***************************************************************************)
Fairness ==
    /\ WF_vars(writeDataMessagesLoop)
    /\ WF_vars(readFromSourceLoop)
    /\ WF_vars(readMessagesLoop)
    /\ WF_vars(timeoutTimer)
    /\ WF_vars(userRead)

(***************************************************************************)
(* The port on the loopback: the user writes, reads and closes.            *)
(***************************************************************************)
codecIdle == codecInput = <<>> /\ codecData = <<>> /\ codecStage = "input"

NoCall == [op |-> "none", len |-> 0, open |-> TRUE, empty |-> TRUE, n |-> 0, err |-> FALSE]

pipeIdle == pipeWritten = <<>> /\ pipeRead = <<>> /\ pipeLast = NoCall

InitLoopback == NewPort("loopback") /\ codecIdle /\ pipeIdle

NextLoopback == userWrite \/ userRead \/ Close \/ tasks

LoopbackSpec == InitLoopback /\ [][NextLoopback]_vars /\ Fairness

(***************************************************************************)
(* The port on a link as the receiver of the peer's data messages.         *)
(***************************************************************************)
InitLink == NewPort("link") /\ codecIdle /\ pipeIdle

NextReceive == peerSendData \/ userRead \/ receiveTasks

ReceiveSpec == InitLink /\ [][NextReceive]_vars

(***************************************************************************)
(* The port on a link as the sender of data messages, the peer answering   *)
(* with control messages.  Each of the peer's messages arrives whole,      *)
(* within the frame timeout of readMessagesLoop.                           *)
(***************************************************************************)
NextSend ==
    \/ userWrite
    \/ peerSendControl
    \/ writeDataMessagesLoop
    \/ readFromSourceLoop
    \/ readMessagesLoop

SendSpec == InitLink /\ [][NextSend]_vars

(***************************************************************************)
(* The port on a link with a user that reads with and without a timeout    *)
(* and closes the port, while the peer sends valid data messages that end  *)
(* a transmission.                                                         *)
(***************************************************************************)
PeerValidDataMessages ==
    {peerMessage(stx, <<msn, 0, 0>>, "body") : msn \in PeerMSNs}

peerSendValidData == \E message \in PeerValidDataMessages : peerSend(message)

ReadTimeouts == {0, 1}

userReadTimeout == \E timeout \in ReadTimeouts : Read(timeout)

NextClose == userReadTimeout \/ Close \/ peerSendValidData \/ receiveTasks

CloseSpec == InitLink /\ [][NextClose]_vars

(***************************************************************************)
(* The port on a link to a silent peer with a user that fills              *)
(* writeDataChunkChan with empty data chunks and closes the port.          *)
(***************************************************************************)
userWriteEmpty ==
    /\ writeCall # <<>> \/ Len(submitted) < MaxQueuedWrites
    /\ Write(<<>>)

NextBlockedWrite ==
    \/ userWriteEmpty
    \/ Close
    \/ writeDataMessagesLoop
    \/ readFromSourceLoop
    \/ readMessagesLoop

BlockedWriteSpec == InitLink /\ [][NextBlockedWrite]_vars

(***************************************************************************)
(* The port on a faulty source, whose Read and Write may fail at any call: *)
(* the user writes, reads and closes, and the peer sends valid data        *)
(* messages, each of which arrives whole, within the frame timeout of      *)
(* readMessagesLoop.                                                       *)
(***************************************************************************)
InitFaulty == NewPort("faulty") /\ codecIdle /\ pipeIdle

userWriteByte ==
    /\ writeCall # <<>> \/ Len(submitted) < MaxWrites
    /\ Write(<<0>>)

NextFault ==
    \/ userWriteByte
    \/ userRead
    \/ Close
    \/ peerSendValidData
    \/ writeDataMessagesLoop
    \/ readFromSourceLoop
    \/ readMessagesLoop

FaultSpec == InitFaulty /\ [][NextFault]_vars

(***************************************************************************)
(* The port on a link as the sender of data messages, with a peer that     *)
(* answers each write of a data message with one control message, an ACK   *)
(* or a NAK, which may arrive corrupted.  The peer numbers its answers: the *)
(* MSN of a control message is the number of the write it answers.         *)
(***************************************************************************)
peerReply ==
    /\ peerSent < Len(sent)
    /\ \E kind \in {ack, nak}, c \in {"body", "corrupt"} :
          peerSend(peerMessage(kind, <<peerSent + 1>>, c))

NextReply ==
    \/ userWrite
    \/ peerReply
    \/ tasks

ReplySpec == InitLink /\ [][NextReply]_vars

(***************************************************************************)
(* The port on a link as the parser of what a peer transmits: messages of  *)
(* both kinds as src/protocol.md, section 3, lays them out, a message with *)
(* a stray byte in front of it, and a data message with an escaped STX in  *)
(* the middle of its body.  The peer starts a transmission when the port   *)
(* has taken every byte of the last one.                                   *)
(***************************************************************************)
PeerFrames ==
    {peerMessage(stx, <<0, 0, 0>>, "body"),
     peerMessage(ack, <<0>>, "body"),
     peerMessage(nak, <<0>>, "body")}

peerStrayByteMessage == <<0>> \o peerMessage(stx, <<0, 0, 0>>, "body")

peerEscapedSTXMessage == <<dle, stx, 0, dle, stx, 0, dle, etx>>

PeerStreams == PeerFrames \cup {peerStrayByteMessage, peerEscapedSTXMessage}

peerTransmitOf(stream, limit) ==
    /\ transport = "link"
    /\ ~srcClosed
    /\ srcBuffer = <<>> /\ rbuf = <<>> /\ readChan = <<>>
    /\ peerSent < limit
    /\ peerSent' = peerSent + 1
    /\ srcBuffer' = stream
    /\ peerLast' = stream
    /\ UNCHANGED <<transport, srcClosed, isClosed, chanVars, writerVars, readerVars,
                   parserVars, submitted, delivered, sent, handledCount, lastHandled,
                   frags, lastPub, callVars, closeVars, ackedAt, codecVars, pipeVars,
                   arrayVars>>

peerTransmit(stream) == peerTransmitOf(stream, MaxPeerFrames)

peerTransmits == \E stream \in PeerStreams : peerTransmit(stream)

NextParse == peerTransmits \/ receiveTasks

ParseSpec == InitLink /\ [][NextParse]_vars

(***************************************************************************)
(* The port on a link to a peer that transmits valid messages with and     *)
(* without the byte DLE in the body: data messages with the MSN 0, the     *)
(* append data flag 0 and one byte of binary data, and acknowledgements.   *)
(* The peer doubles each DLE of the body (src/protocol.md, section 2.2).   *)
(* Every message arrives within its frame timeout.                         *)
(***************************************************************************)
PeerEscapedStreams ==
    {peerMessage(stx, <<0, 0>> \o payload, "body") : payload \in PeerPayloads}
        \cup {peerMessage(ack, <<msn>>, "body") : msn \in {0, dle}}

peerTransmitsEscaped == \E stream \in PeerEscapedStreams : peerTransmit(stream)

NextEscaped == peerTransmitsEscaped \/ readFromSourceLoop \/ readMessagesLoop

EscapedSpec == InitLink /\ [][NextEscaped]_vars

(***************************************************************************)
(* The port on a link as the receiver of binary data in several data       *)
(* messages: a valid message that announces more data, and two valid       *)
(* messages that end a transmission, with different binary data.  A        *)
(* message may arrive after the frame timeout of the one before it.        *)
(***************************************************************************)
PeerAliasStreams ==
    {peerMessage(stx, <<0, 1, 0>>, "body"),
     peerMessage(stx, <<0, 0, 0>>, "body"),
     peerMessage(stx, <<0, 0, 1>>, "body")}

peerTransmitsAlias ==
    \E stream \in PeerAliasStreams : peerTransmitOf(stream, MaxAliasFrames)

NextAlias == peerTransmitsAlias \/ receiveTasks

AliasSpec == InitLink /\ [][NextAlias]_vars

(***************************************************************************)
(* The port on a link to a peer that transmits the same valid data message *)
(* twice, one after the other: the MSN 0, the append data flag 0 and one   *)
(* byte of binary data.  The second may arrive in the frame timeout of the *)
(* first or after it.                                                      *)
(***************************************************************************)
peerDuplicateMessage == peerMessage(stx, <<0, 0, 0>>, "body")

peerTransmitsDuplicate == peerTransmitOf(peerDuplicateMessage, MaxDuplicates)

NextDuplicate == peerTransmitsDuplicate \/ receiveTasks

DuplicateSpec == InitLink /\ [][NextDuplicate]_vars

(***************************************************************************)
(* The port on a link to a peer that transmits one data message whose body *)
(* is longer than maxMessageSize: zero bytes, one more than the buffer of  *)
(* readMessagesLoop may hold, and behind them the bytes of the body of a   *)
(* valid data message.  The source hands the message over in pieces of     *)
(* readBufferSize bytes, what one Read of readFromSourceLoop takes, the    *)
(* next piece when the last one was read.  The message arrives within the  *)
(* frame timeout.                                                          *)
(***************************************************************************)
peerOversizeMessage ==
    <<dle, stx>> \o [i \in 1..(maxMessageSize + 1) |-> 0]
        \o escapeDLE(<<0, 0, 0>> \o Checksum(<<0, 0, 0>>)) \o <<dle, etx>>

peerOversizePiece(k) ==
    LET first == (k - 1) * readBufferSize + 1
        last  == IF k * readBufferSize < Len(peerOversizeMessage)
                 THEN k * readBufferSize ELSE Len(peerOversizeMessage)
    IN  SubSeq(peerOversizeMessage, first, last)

peerTransmitsOversize ==
    /\ transport = "link"
    /\ ~srcClosed
    /\ srcBuffer = <<>>
    /\ peerSent * readBufferSize < Len(peerOversizeMessage)
    /\ peerSent' = peerSent + 1
    /\ srcBuffer' = peerOversizePiece(peerSent + 1)
    /\ UNCHANGED <<transport, srcClosed, isClosed, chanVars, writerVars, readerVars,
                   parserVars, submitted, delivered, sent, handledCount, lastHandled,
                   frags, lastPub, extVars>>

NextOverflow == peerTransmitsOversize \/ readFromSourceLoop \/ readMessagesLoop

OverflowSpec == InitLink /\ [][NextOverflow]_vars

(***************************************************************************)
(* The port on a link as the receiver of control messages: those of        *)
(* PeerControlMessages, whose checksum covers the whole message, the body  *)
(* alone, or arrives corrupted, and control messages with no MSN or with   *)
(* two of them.  Each arrives whole, within the frame timeout.             *)
(***************************************************************************)
PeerControlStreams ==
    PeerControlMessages
        \cup {peerMessage(kind, body, "message") :
                  kind \in {ack, nak}, body \in {<<>>, <<0, 0>>}}

peerTransmitsControl == \E stream \in PeerControlStreams : peerTransmit(stream)

NextControl == peerTransmitsControl \/ readFromSourceLoop \/ readMessagesLoop

ControlSpec == InitLink /\ [][NextControl]_vars

(***************************************************************************)
(* The port on a link to a peer that sends acknowledgements, one control   *)
(* message after the other, while the user writes nothing: the transmit    *)
(* goroutine stays in its select on writeDataChunkChan and takes nothing   *)
(* from readControlMessageChan (ants.go, lines 236-245).  A message may    *)
(* take longer than the frame timeout to arrive.                           *)
(***************************************************************************)
peerAcknowledgement == peerMessage(ack, <<0>>, "body")

peerTransmitsAck == peerTransmitOf(peerAcknowledgement, MaxControlFrames)

NextControlQueue == peerTransmitsAck \/ receiveTasks

ControlQueueSpec == InitLink /\ [][NextControlQueue]_vars

(***************************************************************************)
(* The port on a link as the receiver of data messages of which some are   *)
(* invalid: a valid message that announces more data, a valid message that *)
(* ends a transmission, one whose checksum arrives corrupted, and one that *)
(* is too short to hold an MSN and an append data flag.  A message may     *)
(* take longer than the frame timeout to arrive.                           *)
(***************************************************************************)
PeerDataStreams ==
    {peerMessage(stx, <<0, 1, 0>>, "body"),
     peerMessage(stx, <<0, 0, 0>>, "body"),
     peerMessage(stx, <<0, 0, 0>>, "corrupt"),
     peerMessage(stx, <<0>>, "body")}

peerTransmitsData == \E stream \in PeerDataStreams : peerTransmit(stream)

NextInvalidData == peerTransmitsData \/ receiveTasks

InvalidDataSpec == InitLink /\ [][NextInvalidData]_vars

(***************************************************************************)
(* The port on the loopback with a user that writes one data chunk, which  *)
(* the port sends to itself: the data message is written to the source,    *)
(* read back and handed to the data handler.  The data chunks are short    *)
(* byte sequences and one whose checksum has the DLE byte in it.           *)
(***************************************************************************)
FramePayloads == SeqsUpTo(PayloadBytes, MaxFrameLen) \cup {<<dle, 64>>}

userWriteFrame ==
    \E data \in FramePayloads :
        /\ submitted = <<>>
        /\ Write(data)

NextFrame ==
    \/ userWriteFrame
    \/ writeDataMessagesLoop
    \/ readFromSourceLoop
    \/ readMessagesLoop

FrameSpec == InitLoopback /\ [][NextFrame]_vars

(***************************************************************************)
(* The codec on its own, as TestDLEEscaping uses it (ants_test.go, lines   *)
(* 27-38): a byte sequence is escaped and the result is unescaped.         *)
(***************************************************************************)
CodecInputs == SeqsUpTo(PayloadBytes, MaxCodecLen)

InitCodec ==
    /\ NewPort("loopback")
    /\ codecInput \in CodecInputs
    /\ codecData = codecInput
    /\ codecStage = "input"
    /\ pipeIdle

codecEscape ==
    /\ codecStage = "input"
    /\ codecData' = escapeDLE(codecData)
    /\ codecStage' = "escaped"
    /\ UNCHANGED <<srcVars, isClosed, chanVars, writerVars, readerVars, parserVars,
                   historyVars, callVars, closeVars, ackedAt, codecInput, pipeVars, peerLast,
                   arrayVars>>

codecUnescape ==
    /\ codecStage = "escaped"
    /\ codecData' = unescapeDLE(codecData)
    /\ codecStage' = "unescaped"
    /\ UNCHANGED <<srcVars, isClosed, chanVars, writerVars, readerVars, parserVars,
                   historyVars, callVars, closeVars, ackedAt, codecInput, pipeVars, peerLast,
                   arrayVars>>

NextCodec == codecEscape \/ codecUnescape

CodecSpec == InitCodec /\ [][NextCodec]_vars

(***************************************************************************)
(* The loopback (loopback/loopback.go): Read (lines 43-74) and Write       *)
(* (lines 76-90) under the mutex, as functions of the buffer, the closed   *)
(* flag and the slice p, of which Read uses the length only.  They yield   *)
(* the buffer afterwards, the bytes Read put into p, and the results n and *)
(* err.                                                                    *)
(***************************************************************************)
loopbackReadNewest(buffer, closed, len) ==
    IF closed THEN [buffer |-> buffer, p |-> <<>>, n |-> 0, err |-> TRUE]
    ELSE IF Len(buffer) = 0 THEN [buffer |-> buffer, p |-> <<>>, n |-> 0, err |-> FALSE]
    ELSE LET n == IF len > Len(buffer) THEN Len(buffer) ELSE len
         IN  [buffer |-> SubSeq(buffer, 1, Len(buffer) - n),
              p |-> SubSeq(buffer, Len(buffer) - n + 1, Len(buffer)),
              n |-> n, err |-> FALSE]

loopbackRead(buffer, closed, len) ==
    IF closed THEN [buffer |-> buffer, p |-> <<>>, n |-> 0, err |-> TRUE]
    ELSE IF Len(buffer) = 0 THEN [buffer |-> buffer, p |-> <<>>, n |-> 0, err |-> FALSE]
    ELSE LET n == IF len > Len(buffer) THEN Len(buffer) ELSE len
         IN  [buffer |-> SubSeq(buffer, n + 1, Len(buffer)),
              p |-> SubSeq(buffer, 1, n), n |-> n, err |-> FALSE]

loopbackWrite(buffer, closed, p) ==
    IF closed THEN [buffer |-> buffer, n |-> 0, err |-> TRUE]
    ELSE [buffer |-> buffer \o p, n |-> Len(p), err |-> FALSE]

(***************************************************************************)
(* The loopback on its own, as TestLoopback uses it (loopback_test.go,     *)
(* lines 29-101): one goroutine writes, one reads, and the loopback is     *)
(* closed (loopback.go, lines 92-106) at some moment.  Each call is one    *)
(* step, the mutex makes it so.                                            *)
(***************************************************************************)
PipeBytes == {0, 1}

PipeSlices == SeqsUpTo(PipeBytes, MaxPipeSlice)

writeLoop ==
    \E p \in PipeSlices :
        LET w == loopbackWrite(srcBuffer, srcClosed, p)
        IN  /\ Len(pipeWritten) + Len(p) <= MaxPipeBytes
            /\ srcBuffer' = w.buffer
            /\ pipeWritten' = IF w.err THEN pipeWritten ELSE pipeWritten \o SubSeq(p, 1, w.n)
            /\ pipeLast' = [op |-> "Write", len |-> Len(p), open |-> ~srcClosed,
                            empty |-> (srcBuffer = <<>>), n |-> w.n, err |-> w.err]
            /\ UNCHANGED <<transport, srcClosed, isClosed, chanVars, writerVars,
                           readerVars, parserVars, historyVars, callVars, closeVars,
                           ackedAt, codecVars, pipeRead, peerLast, arrayVars>>

readLoop ==
    \E len \in 1..MaxPipeSlice :
        LET r == loopbackRead(srcBuffer, srcClosed, len)
        IN  /\ srcBuffer' = r.buffer
            /\ pipeRead' = pipeRead \o r.p
            /\ pipeLast' = [op |-> "Read", len |-> len, open |-> ~srcClosed,
                            empty |-> (srcBuffer = <<>>), n |-> r.n, err |-> r.err]
            /\ UNCHANGED <<transport, srcClosed, isClosed, chanVars, writerVars,
                           readerVars, parserVars, historyVars, callVars, closeVars,
                           ackedAt, codecVars, pipeWritten, peerLast, arrayVars>>

loopbackClose ==
    /\ srcClosed' = TRUE
    /\ pipeLast' = [op |-> "Close", len |-> 0, open |-> ~srcClosed,
                    empty |-> (srcBuffer = <<>>), n |-> 0, err |-> srcClosed]
    /\ UNCHANGED <<transport, srcBuffer, isClosed, chanVars, writerVars, readerVars,
                   parserVars, historyVars, callVars, closeVars, ackedAt, codecVars,
                   pipeWritten, pipeRead, peerLast, arrayVars>>

NextPipe == writeLoop \/ readLoop \/ loopbackClose

PipeSpec == InitLoopback /\ [][NextPipe]_vars

(***************************************************************************)
(* The properties.  They read messages and bodies by the layout of         *)
(* src/protocol.md, section 3, on their own: a data message is             *)
(* DLE STX <MSN> <append flag> <binary data> <CRC> DLE ETX with every DLE  *)
(* of the body doubled, and a body is the same without the frame           *)
(* characters and the doubling.                                            *)
(***************************************************************************)
messageBody(message) == unescapeDLE(SubSeq(message, 3, Len(message) - 2))

messageMSN(message) == messageBody(message)[1]

bodyAppendFlag(body) == body[2]

bodyPayload(body) == SubSeq(body, 3, Len(body) - dataMessageCRCLength)

bodyValid(body) ==
    /\ Len(body) >= 2 + dataMessageCRCLength
    /\ Validate(SubSeq(body, 1, Len(body) - dataMessageCRCLength),
                SubSeq(body, Len(body) - dataMessageCRCLength + 1, Len(body)))

RECURSIVE concatPayloads(_)
concatPayloads(bodies) ==
    IF bodies = <<>> THEN <<>>
    ELSE bodyPayload(Head(bodies)) \o concatPayloads(Tail(bodies))

nextMSN(current) == IF current = 255 THEN 1 ELSE current + 1

(***************************************************************************)
(* C1: on the loopback every payload submitted with Write is eventually    *)
(* returned by Read, byte for byte, as long as the port is not closed.     *)
(***************************************************************************)
C1_RoundTrip ==
    \A p \in Payloads :
        (\E i \in DOMAIN submitted : submitted[i] = p)
            ~> ((\E i \in DOMAIN delivered : delivered[i] = p) \/ isClosed)

(***************************************************************************)
(* C2: the payloads submitted with Write are returned by Read in the order *)
(* of their submission, none missing and none reordered: the n-th payload  *)
(* submitted eventually is the n-th payload returned (or the port is       *)
(* closed).                                                                *)
(***************************************************************************)
C2_OrderPreserved ==
    \A n \in 1..MaxWrites :
        (Len(submitted) >= n)
            ~> (\/ /\ Len(delivered) >= n
                   /\ SubSeq(delivered, 1, n) = SubSeq(submitted, 1, n)
                \/ isClosed)

(***************************************************************************)
(* C3: a data message whose body arrives corrupted is answered with a NAK  *)
(* written to the source (on which the sender retransmits).                *)
(***************************************************************************)
C3_CorruptionIsNaked ==
    (handledCount > 0 /\ ~bodyValid(lastHandled.body))
        => /\ Len(lastHandled.written) = 1
           /\ Len(lastHandled.written[1]) >= 2
           /\ lastHandled.written[1][2] = nak

(***************************************************************************)
(* C4: for every body handed to the data handler exactly one control       *)
(* message is written to the source.                                       *)
(***************************************************************************)
C4_OneControlMessagePerDataMessage ==
    handledCount > 0 => Len(lastHandled.written) = 1

(***************************************************************************)
(* C5: writeDataMessagesLoop leaves the resend loop only on an ACK whose   *)
(* MSN is the MSN of the message it wrote; on every other control message, *)
(* an ACK of another MSN included, it writes the message again.            *)
(***************************************************************************)
C5_LeavesResendLoopOnMatchingAck ==
    [][(wpc = "wait" /\ wpc' # "wait")
        => LET cm == Head(readControlMessageChan)
           IN  IF cm.TypeCharacter = ack /\ cm.MSN = messageMSN(wdata)
               THEN wpc' = "select"
               ELSE wpc' = "write"]_vars

(***************************************************************************)
(* C6: writeDataMessagesLoop never waits forever for a control message     *)
(* while the port is open: when none arrives it writes the message again.  *)
(***************************************************************************)
C6_ControlTimeoutRetransmits ==
    (wpc = "wait" /\ readControlMessageChan = <<>>)
        ~> (wpc = "write" \/ readControlMessageChan # <<>> \/ isClosed)

(***************************************************************************)
(* C7: the control message written in reply to a data message is a NAK     *)
(* with the MSN umsn when the body is too short or fails its checksum, and *)
(* an ACK with the MSN of the body when the body is valid.                 *)
(***************************************************************************)
C7_ReplyKindAndMSN ==
    handledCount > 0 =>
        LET body    == lastHandled.body
            written == lastHandled.written
            kind    == IF bodyValid(body) THEN ack ELSE nak
            msn     == IF bodyValid(body) THEN body[1] ELSE umsn
        IN  /\ Len(written) = 1
            /\ Len(written[1]) >= 5
            /\ SubSeq(written[1], 1, 2) = <<dle, kind>>
            /\ messageMSN(written[1]) = msn

(***************************************************************************)
(* C8: a payload placed on readDataChunkChan is the concatenation, in      *)
(* arrival order, of the binary data fields of the valid data messages     *)
(* received since the last publication; the last of them has the append    *)
(* flag 0 and all the earlier ones an append flag other than 0; a message  *)
(* with an append flag other than 0 publishes nothing and only extends     *)
(* readBinaryDataBuffer, which is empty after each publication.            *)
(***************************************************************************)
C8_Reassembly ==
    /\ \A i \in DOMAIN frags : bodyValid(frags[i]) /\ bodyAppendFlag(frags[i]) # 0
    /\ readBinaryDataBuffer = concatPayloads(frags)
    /\ ppc = "pushData" =>
          /\ bodyValid(pending.body)
          /\ bodyAppendFlag(pending.body) = 0
          /\ pending.data = concatPayloads(Append(frags, pending.body))
    /\ lastPub # NoPub =>
          LET n == Len(lastPub.frags)
          IN  /\ n >= 1
              /\ \A i \in 1..n : bodyValid(lastPub.frags[i])
              /\ \A i \in 1..(n - 1) : bodyAppendFlag(lastPub.frags[i]) # 0
              /\ bodyAppendFlag(lastPub.frags[n]) = 0
              /\ lastPub.data = concatPayloads(lastPub.frags)
    /\ readDataChunkChan # <<>> =>
          /\ lastPub # NoPub
          /\ readDataChunkChan[Len(readDataChunkChan)] = lastPub.data

(* A payload of two data messages was published, and the buffer is empty. *)
C8_Witness ==
    /\ lastPub # NoPub
    /\ Len(lastPub.frags) >= 2
    /\ lastPub.data # <<>>
    /\ readDataChunkChan # <<>>
    /\ readBinaryDataBuffer = <<>>
    /\ frags = <<>>

(***************************************************************************)
(* C9: a payload of at most 1024 bytes is written as one data message      *)
(* whose binary data field is the payload and whose append flag is 0.      *)
(***************************************************************************)
C9_Fragmentation ==
    \A i \in DOMAIN sent :
        LET body == messageBody(sent[i].message)
        IN  /\ Len(body) >= 2 + dataMessageCRCLength
            /\ bodyAppendFlag(body) = 0
            /\ bodyPayload(body) = sent[i].chunk

(***************************************************************************)
(* C10: every data message written carries an MSN in 1..255; the message   *)
(* of the next data chunk carries the successor of the last MSN, and a     *)
(* message written again carries the MSN it had.                           *)
(***************************************************************************)
C10_MessageSequenceNumbers ==
    /\ \A i \in DOMAIN sent : messageMSN(sent[i].message) \in 1..255
    /\ \A i \in 1..(Len(sent) - 1) :
          messageMSN(sent[i + 1].message) =
              IF sent[i + 1].n = sent[i].n
              THEN messageMSN(sent[i].message)
              ELSE nextMSN(messageMSN(sent[i].message))

(***************************************************************************)
(* C11: every time writeDataMessagesLoop writes the message of a data      *)
(* chunk again, it writes the bytes of the first time, whatever control    *)
(* messages it received in between.                                        *)
(***************************************************************************)
C11_ResendIsIdentical ==
    \A i, j \in DOMAIN sent :
        sent[i].n = sent[j].n => sent[i].message = sent[j].message

(* A message holding a DLE was written a second time after a NAK. *)
C11_Witness ==
    /\ Len(sent) >= 2
    /\ sent[1].n = sent[2].n
    /\ sent[2].chunk = <<dle>>

(***************************************************************************)
(* C12: for every byte sequence x, unescapeDLE(escapeDLE(x)) is x, in      *)
(* length and content.                                                     *)
(***************************************************************************)
C12_EscapeRoundTrip ==
    codecStage = "unescaped"
        => /\ Len(codecData) = Len(codecInput)
           /\ codecData = codecInput

(* A sequence that begins and ends with DLE went through both functions. *)
C12_Witness ==
    /\ codecStage = "unescaped"
    /\ codecInput = <<dle, dle, 0, dle>>

(***************************************************************************)
(* C13: once the port is closed, no call of Read returns a data chunk, not *)
(* even one that waits in readDataChunkChan, and no call of Write is       *)
(* accepted.                                                               *)
(***************************************************************************)
C13_ClosedPortRefusesCalls ==
    [][isClosed => (delivered' = delivered /\ submitted' = submitted)]_vars

(***************************************************************************)
(* C14: a call of Write that is blocked when the port is closed returns:   *)
(* once the port is closed and writeDataMessagesLoop has returned, so that *)
(* nothing receives from writeDataChunkChan any more, no call of Write is  *)
(* still blocked in its send.                                              *)
(***************************************************************************)
C14_BlockedWriteReturns ==
    (isClosed /\ wpc = "done") => writeCall = <<>>

(***************************************************************************)
(* C20: a Read with a timeout that finds no data chunk and no closed port  *)
(* returns ErrTimeout, and a Read that returns ErrTimeout changes nothing  *)
(* of the port: readDataChunkChan keeps its data chunks and the port is    *)
(* not closed.                                                             *)
(***************************************************************************)
C20_ReadTimeoutChangesNothing ==
    [][/\ (lastRead' # lastRead /\ readDataChunkChan = <<>> /\ ~isClosed)
            => lastRead' = "ErrTimeout"
       /\ (lastRead' = "ErrTimeout" /\ lastRead # "ErrTimeout")
            => UNCHANGED <<srcVars, isClosed, chanVars, writerVars, readerVars,
                           parserVars, historyVars, writeCall, closeVars, ackedAt>>
      ]_vars

(* A Read timed out on an open port, and a data chunk is there for the next. *)
C20_Witness ==
    /\ lastRead = "ErrTimeout"
    /\ ~isClosed
    /\ readDataChunkChan # <<>>
    /\ delivered = <<>>

(***************************************************************************)
(* C15: Close is idempotent, whoever calls it and how often: isClosed is   *)
(* set once and never reset, closeChan is closed once, the Close of the    *)
(* source is called once, and a call on a closed port changes nothing.     *)
(***************************************************************************)
C15_CloseIsIdempotent ==
    /\ [](/\ closeChanCloses = (IF isClosed THEN 1 ELSE 0)
          /\ sourceCloses = (IF isClosed THEN 1 ELSE 0)
          /\ isClosed <=> (closedBy # NoClose))
    /\ [][isClosed => UNCHANGED <<isClosed, closeChanCloses, sourceCloses,
                                  srcClosed, closedBy>>]_vars

(* The user closed the port, and writeDataMessagesLoop called Close after *)
(* that, on the error of its write to the closed source.                  *)
C15_Witness ==
    /\ isClosed
    /\ closedBy.task = "user"
    /\ lastFault.op = "Write"
    /\ wpc = "done"

(***************************************************************************)
(* C16: after the port is closed the three goroutines return, whatever     *)
(* each of them was doing.                                                 *)
(***************************************************************************)
C16_TasksExitAfterClose ==
    isClosed ~> (wpc = "done" /\ rpc = "done" /\ ppc = "done")

C18_WriteFaultClosesPort ==
    /\ [](lastFault.op = "Write" => (isClosed /\ wpc = "done"))
    /\ [][lastFault.op = "Write"
            => (sent' = sent /\ delivered' = delivered /\ submitted' = submitted)]_vars

(***************************************************************************)
(* C19: an error other than the end of the stream, or a panic, of the      *)
(* source's Read closes the port and ends readFromSourceLoop; a Read of no *)
(* bytes or at the end of the stream never closes the port, and the loop   *)
(* goes on as long as the port is open.                                    *)
(***************************************************************************)
C19_ReadFaults ==
    /\ lastFault.op = "Read" => (isClosed /\ rpc = "done")
    /\ closedBy.task = "readFromSourceLoop" => closedBy.cause \in {"error", "panic"}
    /\ rpc = "done" => isClosed

(* A panic of the source's Read closed the port. *)
C19_Witness ==
    /\ closedBy = [task |-> "readFromSourceLoop", cause |-> "panic"]
    /\ lastFault = [op |-> "Read", outcome |-> "panic"]
    /\ rpc = "done"

(***************************************************************************)
(* C21: the loopback is a FIFO byte pipe under a writer and a reader that  *)
(* run side by side.  The bytes the Reads returned, followed by the bytes  *)
(* the buffer holds, are the bytes written, so that the bytes read are a   *)
(* prefix of the bytes written with none lost, repeated or out of place;   *)
(* a Write on an open loopback returns len(p) and no error; a Read on an   *)
(* open loopback with an empty buffer returns 0 and no error.              *)
(***************************************************************************)
C21_LoopbackIsFIFO ==
    /\ pipeRead \o srcBuffer = pipeWritten
    /\ (pipeLast.op = "Write" /\ pipeLast.open)
          => (pipeLast.n = pipeLast.len /\ ~pipeLast.err)
    /\ (pipeLast.op = "Read" /\ pipeLast.open /\ pipeLast.empty)
          => (pipeLast.n = 0 /\ ~pipeLast.err)

\* A Read has returned two bytes that differ while the loopback, still open,
\* holds bytes the writer has added since.
C21_Witness ==
    /\ pipeLast.op = "Read" /\ pipeLast.n = 2
    /\ Len(pipeRead) >= 2 /\ pipeRead[1] # pipeRead[2]
    /\ srcBuffer # <<>> /\ ~srcClosed

(***************************************************************************)
(* The parser as the properties see it: the step in which readMessagesLoop *)
(* takes a byte from readChan, and the bytes of the peer's last            *)
(* transmission the port has not yet given to the parser.                  *)
(***************************************************************************)
parserTakes == ppc = "select" /\ readChan # <<>> /\ readChan' = Tail(readChan)

parserTakesEscaped == parserTakes /\ byteIsEscaped

parserIsIdle == ~startCharacterFound /\ buf = <<>>

bytesAhead == Len(srcBuffer) + Len(rbuf) + Len(readChan)

(***************************************************************************)
(* C22: when the parser has processed the escaped ETX that ends a frame,   *)
(* it is back in IDLE: no start character counts as found, the body buffer *)
(* is empty and the frame timer is stopped.  This holds at the step that   *)
(* takes the ETX when no handler blocks, and at the step that completes a  *)
(* handler's channel send when one does.                                   *)
(***************************************************************************)
C22_IdleAfterETX ==
    /\ [][(parserTakesEscaped /\ startCharacterFound /\ Head(readChan) = etx
              /\ ppc' = "select")
            => (parserIsIdle' /\ ~timerRunning')]_vars
    /\ [][(ppc \in {"pushControl", "pushData"} /\ ppc' = "select")
            => (parserIsIdle' /\ ~timerRunning')]_vars

(***************************************************************************)
(* C23: a complete frame is handed to the handler of its own start         *)
(* character.  When the parser is about to take the ETX of a frame the     *)
(* peer transmitted, what decides the handler (isControlMessage and        *)
(* controlCharacter) agrees with the second byte of that frame.            *)
(***************************************************************************)
C23_HandlerMatchesStartCharacter ==
    (/\ peerLast \in PeerFrames
     /\ ppc = "select" /\ bytesAhead = 1 /\ readChan = <<etx>>
     /\ byteIsEscaped /\ startCharacterFound)
        => /\ isControlMessage = (peerLast[2] # stx)
           /\ isControlMessage => controlCharacter = peerLast[2]

(***************************************************************************)
(* C24: while no start character is found, the body buffer is empty.       *)
(***************************************************************************)
C24_IdleBufferIsEmpty == ~startCharacterFound => buf = <<>>

(***************************************************************************)
(* C25: an escaped byte other than ETX inside a body makes the parser drop *)
(* the frame and return to IDLE, and no handler is called for that frame:  *)
(* after the data message with an escaped STX in its body as the only      *)
(* transmission, no body was handed to the data handler and no control     *)
(* message was queued.                                                     *)
(***************************************************************************)
C25_EscapedByteInBodyDropsFrame ==
    /\ [][(parserTakesEscaped /\ startCharacterFound /\ Head(readChan) # etx)
            => parserIsIdle']_vars
    /\ []((peerSent = 1 /\ peerLast = peerEscapedSTXMessage)
            => (handledCount = 0 /\ readControlMessageChan = <<>>
                /\ ppc # "pushControl"))

(***************************************************************************)
(* C27: the frame timer is started at the start character of every frame   *)
(* (the second byte of a frame the peer transmitted), and a tick of the    *)
(* timer resets the parser to IDLE with no handler called and nothing      *)
(* written to the source.                                                  *)
(***************************************************************************)
C27_FrameTimer ==
    /\ [][(parserTakes /\ peerLast \in PeerFrames
              /\ bytesAhead = Len(peerLast) - 1)
            => timerRunning']_vars
    /\ [][(ppc = "select" /\ timerTick /\ ~timerTick')
            => (/\ parserIsIdle'
                /\ ppc' = "select"
                /\ handledCount' = handledCount
                /\ readControlMessageChan' = readControlMessageChan
                /\ srcBuffer' = srcBuffer)]_vars

(***************************************************************************)
(* C26: when the body buffer would exceed maxMessageSize, the parser drops *)
(* the frame and returns to IDLE, and the bytes of the frame that follow   *)
(* reach no handler: where an oversized data message is all the port       *)
(* receives, no body is handed to the data handler and no data chunk is    *)
(* queued for Read.                                                        *)
(***************************************************************************)
C26_OversizeFrameIsDropped ==
    /\ [][(/\ parserTakes /\ startCharacterFound
            /\ ~(byteIsEscaped /\ Head(readChan) = etx)
            /\ ~(~byteIsEscaped /\ Head(readChan) = dle)
            /\ Len(buf) + 1 > maxMessageSize)
            => parserIsIdle']_vars
    /\ [](handledCount = 0 /\ readDataChunkChan = <<>> /\ ppc # "pushData")

(***************************************************************************)
(* C28: a completed control frame is queued as (kind, MSN) exactly when    *)
(* its body is three bytes long and the last two are the CRC-16 of the two *)
(* bytes kind and MSN; every other frame is dropped and the queue is left  *)
(* alone.  Stated for the step in which the parser takes the ETX of a      *)
(* control message the peer transmitted: the handler goes on to the send   *)
(* on readControlMessageChan with that control message, or returns.        *)
(***************************************************************************)
controlFrameIsValid(message) ==
    LET body == messageBody(message)
    IN  /\ Len(body) = 3
        /\ SubSeq(body, 2, 3) = Checksum(<<message[2], body[1]>>)

C28_ControlFrameQueuedIffValid ==
    [][(/\ peerLast \in PeerControlStreams
        /\ parserTakesEscaped /\ startCharacterFound
        /\ bytesAhead = 1 /\ Head(readChan) = etx)
        => IF controlFrameIsValid(peerLast)
           THEN /\ ppc' = "pushControl"
                /\ pending' = [TypeCharacter |-> peerLast[2],
                               MSN |-> messageMSN(peerLast)]
           ELSE /\ ppc' = "select"
                /\ readControlMessageChan' = readControlMessageChan]_vars

(***************************************************************************)
(* C29: queueing a control message never blocks the parser: it is never at *)
(* the send on readControlMessageChan while the channel holds              *)
(* readControlMessageChanSize control messages.                            *)
(***************************************************************************)
C29_EnqueueNeverBlocks ==
    ~(ppc = "pushControl" /\ Len(readControlMessageChan) >= readControlMessageChanSize)

(***************************************************************************)
(* C30: a data frame that is too short or fails its checksum changes       *)
(* nothing on the receiving port: in the step that hands such a body to    *)
(* the data handler, readBinaryDataBuffer keeps its content, nothing is    *)
(* added to readDataChunkChan, no send on it is begun, and the port is and *)
(* stays open.                                                             *)
(***************************************************************************)
C30_InvalidDataFrameChangesNothing ==
    [][(handledCount' = handledCount + 1 /\ ~bodyValid(lastHandled'.body))
        => (/\ readBinaryDataBuffer' = readBinaryDataBuffer
            /\ readDataChunkChan' = readDataChunkChan
            /\ ppc = "select" /\ ppc' = "select"
            /\ ~isClosed /\ ~isClosed' /\ ~srcClosed')]_vars

\* A body too short for a data message was handed to the handler while the
\* binary data of an earlier message waits in readBinaryDataBuffer.
C30_Witness ==
    /\ handledCount = 2
    /\ Len(lastHandled.body) < 2 + dataMessageCRCLength
    /\ readBinaryDataBuffer # <<>>
    /\ readDataChunkChan = <<>>
    /\ ~isClosed

(***************************************************************************)
(* C31: the checksum of a data message the port writes is the CRC of the   *)
(* unescaped bytes STX, MSN, append data flag and payload, and a data      *)
(* message the port wrote passes the validation of the data handler of a   *)
(* port with the same CRC configuration, here of the port itself on the    *)
(* loopback.                                                               *)
(***************************************************************************)
messageChecksumCoversBody(message) ==
    LET body == messageBody(message)
        pos  == Len(body) - dataMessageCRCLength
    IN  /\ pos >= 0
        /\ SubSeq(body, pos + 1, Len(body)) = Checksum(<<stx>> \o SubSeq(body, 1, pos))

C31_ChecksumDomain ==
    /\ \A i \in DOMAIN sent : messageChecksumCoversBody(sent[i].message)
    /\ (transport = "loopback" /\ handledCount > 0) => bodyValid(lastHandled.body)

\* The escaped bytes other than DLE that a scan of message finds, with their places.
RECURSIVE escapedControls(_, _, _)
escapedControls(message, i, isEscaped) ==
    IF i > Len(message) THEN (IF isEscaped THEN <<<<i, dle>>>> ELSE <<>>)
    ELSE IF ~isEscaped /\ message[i] = dle THEN escapedControls(message, i + 1, TRUE)
    ELSE IF isEscaped /\ message[i] # dle
    THEN <<<<i, message[i]>>>> \o escapedControls(message, i + 1, FALSE)
    ELSE escapedControls(message, i + 1, FALSE)

(***************************************************************************)
(* C32: in every data message the port writes, a scan from left to right   *)
(* with the one-bit escape state finds exactly two escaped control         *)
(* characters, STX at the second byte and ETX at the last, and ends with   *)
(* no escape pending: every other DLE is one of a pair DLE DLE.            *)
(***************************************************************************)
C32_FramingIsUnambiguous ==
    \A i \in DOMAIN sent :
        escapedControls(sent[i].message, 1, FALSE)
            = <<<<2, stx>>, <<Len(sent[i].message), etx>>>>

\* A data message was written whose data chunk and whose checksum both have
\* the DLE byte in them: it holds two pairs DLE DLE between STX and ETX.
C32_Witness ==
    /\ sent # <<>>
    /\ \E j \in DOMAIN sent[1].chunk : sent[1].chunk[j] = dle
    /\ Checksum(<<dle, stx>> \o escapeDLE(sent[1].chunk))[2] = dle
    /\ Len(sent[1].message) = Len(sent[1].chunk) + 8

(***************************************************************************)
(* C33: when the Write of a data message takes only a part of it and       *)
(* returns no error, writeToSource writes DLE ETX once, and whatever that  *)
(* Write returns, the port is not closed, no fault is reported, and the    *)
(* write loop goes on to wait for a control message with the same data, as *)
(* it does after a complete Write.  (A panic in the Write of DLE ETX is    *)
(* not a returned result: it is recovered as every panic of the source.)   *)
(***************************************************************************)
C33_ShortWriteIsNotFatal ==
    [][(/\ wpc = "write"
        /\ wpc' # "write"
        /\ lastWrite'.outcome = "short"
        /\ lastWrite'.terminator # "panic")
       => (/\ lastWrite'.terminators = 1
           /\ isClosed' = isClosed
           /\ srcClosed' = srcClosed
           /\ closedBy' = closedBy
           /\ lastFault' = lastFault
           /\ wpc' = "wait"
           /\ wdata' = wdata
           /\ readControlMessageChan' = readControlMessageChan
           /\ sent' = Append(sent, [chunk |-> wchunk, n |-> sent'[Len(sent')].n,
                                    message |-> wdata]))]_vars

\* A short Write was followed by a Write of DLE ETX that returned an error:
\* the port is open and the write loop waits for a control message.
C33_Witness ==
    /\ lastWrite = [outcome |-> "short", terminator |-> "error", terminators |-> 1]
    /\ wpc = "wait"
    /\ ~isClosed
    /\ lastFault.op # "Write"

\* Both transmissions of the repeated data message have been handled and queued.
duplicatesAreQueued ==
    (peerSent = MaxDuplicates /\ bytesAhead = 0 /\ ppc = "select")
        => /\ handledCount = MaxDuplicates
           /\ readDataChunkChan = <<bodyPayload(messageBody(peerDuplicateMessage)),
                                    bodyPayload(messageBody(peerDuplicateMessage))>>

(***************************************************************************)
(* C34: when the same valid data message with the append data flag 0 has   *)
(* arrived twice, one after the other, its binary data is on               *)
(* readDataChunkChan twice, and the reply written for each of the two is   *)
(* an ACK.                                                                 *)
(***************************************************************************)
C34_DuplicateIsDeliveredTwice ==
    /\ (handledCount > 0 /\ bodyValid(lastHandled.body))
          => /\ Len(lastHandled.written) = 1
             /\ Len(lastHandled.written[1]) >= 2
             /\ SubSeq(lastHandled.written[1], 1, 2) = <<dle, ack>>
    /\ duplicatesAreQueued

(***************************************************************************)
(* C35: the body that readMessagesLoop hands to a handler is the bytes     *)
(* between the start and the end of the message as they were on the wire,  *)
(* unescaped once: one DLE for each pair DLE DLE, and every other byte.    *)
(* Stated for the first message of a transmission, for the body the data   *)
(* handler replies to and the body of a control message that is queued.    *)
(***************************************************************************)
C35_BodyIsUnescapedOnce ==
    /\ [][(peerSent = 1 /\ handledCount' = handledCount + 1)
            => lastHandled'.body = messageBody(peerLast)]_vars
    /\ [][(peerSent = 1 /\ ppc = "select" /\ ppc' = "pushControl")
            => buf' = messageBody(peerLast)]_vars

(***************************************************************************)
(* C36: a slice that was sent to readDataChunkChan holds from then on the  *)
(* bytes it held when it was made: no data message handled later changes   *)
(* them.                                                                   *)
(***************************************************************************)
C36_PublishedPayloadIsStable ==
    \A k \in DOMAIN dataSlices : dataSlices[k].now = dataSlices[k].made

====
